---- MODULE Spec2Model ----
(***************************************************************************)
(* Bill-ingestion pipeline of lumi-task-energy (BillsService):             *)
(* uploadAndProcessBill, reprocessBill and their helpers, run as           *)
(* concurrent requests against one shared store (energyBill rows,          *)
(* processingLog rows) and one upload directory.  Every `await` of the     *)
(* service is a separate step, so requests interleave exactly where the    *)
(* code can be suspended.                                                  *)
(***************************************************************************)
EXTENDS Integers, Sequences, FiniteSets, Bags, TLC

\* Number of requests (calls of uploadAndProcessBill / reprocessBill).
MaxRuns == 2
Runs == 1..MaxRuns

\* validateFile: Number.parseInt(process.env.MAX_FILE_SIZE) || 10485760
MaxFileSize == 10485760

\* Byte contents of the documents that are uploaded.
Docs == {"pdfA", "pdfB"}
MimeTypes == {"application/pdf", "image/png"}
Sizes == {MaxFileSize, MaxFileSize + 1}

\* enum ProcessingStatus
ProcessingStatus == {"PENDING", "PROCESSING", "COMPLETED", "FAILED"}

\* Path under which the upload layer stored the file of request r; the row
\* that is in the database before the service starts has its file at SeedPath.
SeedPath == "uploads/seed.pdf"
PathOf(r) == "uploads/file-" \o ToString(r)
Paths == {SeedPath} \cup {PathOf(r) : r \in Runs}

----------------------------------------------------------------------------
\* Errors.  An error is identified by its class (kind) and its message.

NoError == [kind |-> "none", message |-> ""]
BadRequestException(m) == [kind |-> "BadRequestException", message |-> m]
NotFoundException(m) == [kind |-> "NotFoundException", message |-> m]
\* `file.originalname` on a null file
TypeErrorNullFile == [kind |-> "TypeError", message |-> "Cannot read properties of null"]

MsgNoFile == "Nenhum arquivo foi enviado"
MsgNotPdf == "Apenas arquivos PDF sao aceitos"
MsgTooLarge == "Arquivo muito grande"
MsgDuplicate == "Esta fatura ja foi processada anteriormente"
MsgNotFound == "Fatura nao encontrada"
MsgNotFailed == "So e possivel reprocessar faturas com status FAILED"
MsgReadFile == "Nao foi possivel ler o arquivo salvo para reprocessamento."

\* What llmService.extractBillData can throw: its own BadRequestException
\* (validation of the answer) or any error of the OpenAI client.
LlmErrors == { BadRequestException("Numero do cliente e obrigatorio"),
               [kind |-> "Error", message |-> "LLM extraction failed"] }

\* What the store can throw.
DbUniqueError == [kind |-> "PrismaClientKnownRequestError",
                  message |-> "Unique constraint failed on the fields: (fileHash)"]
\* A write that fails for any other reason; the message names the write.
DbError(op) == [kind |-> "PrismaClientKnownRequestError",
                message |-> "database unavailable: " \o op]

----------------------------------------------------------------------------
\* Files (Express.Multer.File) and the answers of the Extraction Gateway.

NullFile == [present |-> FALSE, buffer |-> "", mimetype |-> "", size |-> 0,
             originalname |-> "", path |-> ""]
MulterFile(buffer, mimetype, size, originalname, path) ==
    [present |-> TRUE, buffer |-> buffer, mimetype |-> mimetype, size |-> size,
     originalname |-> originalname, path |-> path]
NameOf(d) == IF d = "pdfA" THEN "a.pdf" ELSE "b.pdf"

Absent == [present |-> FALSE, quantity |-> 0, value |-> 0]
Pair(q, v) == [present |-> TRUE, quantity |-> q, value |-> v]
\* Monetary values in centavos.
ExtractedSamples ==
    { [customerNumber |-> "7202210726", referenceMonth |-> "SET/2024",
       electricEnergy |-> Pair(50, 4567), sceeeEnergy |-> Pair(476, 39250),
       compensatedEnergy |-> Pair(526, 43817),
       publicLightingContrib |-> Pair(0, 2345)],
      [customerNumber |-> "7202210726", referenceMonth |-> "SET/2024",
       electricEnergy |-> Pair(50, 4567), sceeeEnergy |-> Absent,
       compensatedEnergy |-> Absent, publicLightingContrib |-> Absent] }
NoData == [customerNumber |-> "", referenceMonth |-> "",
           electricEnergy |-> Absent, sceeeEnergy |-> Absent,
           compensatedEnergy |-> Absent, publicLightingContrib |-> Absent]

----------------------------------------------------------------------------
\* Pure helpers of BillsService.

\* generateFileHash: md5 of the bytes, as hex.  Distinct documents of the
\* model have distinct digests.
\* A fingerprint that does not read the bytes.
generateFileHash_constant(buffer) == "d41d8cd98f00b204e9800998ecf8427e"

generateFileHash(buffer) ==
    CASE buffer = "pdfA" -> "0cc175b9c0f1b6a831c399e269772661"
      [] buffer = "pdfB" -> "92eb5ffee6ae2fec3ad71c777531578f"
      [] OTHER -> "d41d8cd98f00b204e9800998ecf8427e"

\* validateFile with the size check off by one.
validateFile_offByOne(file) ==
    IF ~file.present THEN BadRequestException(MsgNoFile)
    ELSE IF file.mimetype # "application/pdf" THEN BadRequestException(MsgNotPdf)
    ELSE IF file.size >= MaxFileSize THEN BadRequestException(MsgTooLarge)
    ELSE NoError

\* validateFile: the error it throws, NoError when the file passes.
validateFile(file) ==
    IF ~file.present THEN BadRequestException(MsgNoFile)
    ELSE IF file.mimetype # "application/pdf" THEN BadRequestException(MsgNotPdf)
    ELSE IF file.size > MaxFileSize THEN BadRequestException(MsgTooLarge)
    ELSE NoError

\* `x?.f || 0`
OrZero(opt, v) == IF opt.present /\ v # 0 THEN v ELSE 0

\* The calculation without the public lighting contribution.
calculateDerivedValues_noLighting(extractedData) ==
    [totalEnergyConsumption |->
         extractedData.electricEnergy.quantity
         + OrZero(extractedData.sceeeEnergy, extractedData.sceeeEnergy.quantity),
     compensatedEnergy |->
         OrZero(extractedData.compensatedEnergy, extractedData.compensatedEnergy.quantity),
     totalValueWithoutGD |->
         extractedData.electricEnergy.value
         + OrZero(extractedData.sceeeEnergy, extractedData.sceeeEnergy.value),
     gdEconomy |->
         OrZero(extractedData.compensatedEnergy, extractedData.compensatedEnergy.value)]

\* Lines 342-366.
calculateDerivedValues(extractedData) ==
    [totalEnergyConsumption |->
         extractedData.electricEnergy.quantity
         + OrZero(extractedData.sceeeEnergy, extractedData.sceeeEnergy.quantity),
     compensatedEnergy |->
         OrZero(extractedData.compensatedEnergy, extractedData.compensatedEnergy.quantity),
     totalValueWithoutGD |->
         extractedData.electricEnergy.value
         + OrZero(extractedData.sceeeEnergy, extractedData.sceeeEnergy.value)
         + OrZero(extractedData.publicLightingContrib, extractedData.publicLightingContrib.value),
     gdEconomy |->
         OrZero(extractedData.compensatedEnergy, extractedData.compensatedEnergy.value)]

----------------------------------------------------------------------------
\* Rows of the energyBill table.

\* Value of the columns that create does not set: the table gives an
\* unset quantity, value or metric the value zero and leaves errorMessage
\* empty.
ColumnDefaults ==
    [sceeeQuantity |-> 0, sceeeValue |-> 0,
     compensatedEnergyQuantity |-> 0, compensatedEnergyValue |-> 0,
     publicLightingContrib |-> 0,
     compensatedEnergy |-> 0, gdEconomy |-> 0,
     errorMessage |-> ""]

\* prisma.energyBill.create({data: ...}) of uploadAndProcessBill; the
\* columns the call does not set take their column default.
InitialBill(id, file, fileHash) ==
    [id |-> id,
     customerNumber |-> "PROCESSING", referenceMonth |-> "PROCESSING",
     electricEnergyQuantity |-> 0, electricEnergyValue |-> 0,
     totalEnergyConsumption |-> 0,
     totalValueWithoutGD |-> 0,
     originalFileName |-> file.originalname, filePath |-> file.path,
     fileSize |-> file.size, fileHash |-> fileHash,
     processingStatus |-> "PROCESSING"] @@ ColumnDefaults

\* The update without processingStatus in its data.
CompletedPatch_noStatus(bill, extractedData, calculatedData) ==
    [bill EXCEPT
       !.customerNumber = extractedData.customerNumber,
       !.referenceMonth = extractedData.referenceMonth,
       !.totalEnergyConsumption = calculatedData.totalEnergyConsumption]

\* The update without publicLightingContrib in its data.
CompletedPatch_dropsLighting(bill, extractedData, calculatedData) ==
    [bill EXCEPT
       !.customerNumber = extractedData.customerNumber,
       !.referenceMonth = extractedData.referenceMonth,
       !.electricEnergyQuantity = extractedData.electricEnergy.quantity,
       !.electricEnergyValue = extractedData.electricEnergy.value,
       !.sceeeQuantity = OrZero(extractedData.sceeeEnergy, extractedData.sceeeEnergy.quantity),
       !.sceeeValue = OrZero(extractedData.sceeeEnergy, extractedData.sceeeEnergy.value),
       !.compensatedEnergyQuantity =
            OrZero(extractedData.compensatedEnergy, extractedData.compensatedEnergy.quantity),
       !.compensatedEnergyValue =
            OrZero(extractedData.compensatedEnergy, extractedData.compensatedEnergy.value),
       !.totalEnergyConsumption = calculatedData.totalEnergyConsumption,
       !.compensatedEnergy = calculatedData.compensatedEnergy,
       !.totalValueWithoutGD = calculatedData.totalValueWithoutGD,
       !.gdEconomy = calculatedData.gdEconomy,
       !.processingStatus = "COMPLETED"]

\* data of prisma.energyBill.update(... COMPLETED)
CompletedPatch(bill, extractedData, calculatedData) ==
    [bill EXCEPT
       !.customerNumber = extractedData.customerNumber,
       !.referenceMonth = extractedData.referenceMonth,
       !.electricEnergyQuantity = extractedData.electricEnergy.quantity,
       !.electricEnergyValue = extractedData.electricEnergy.value,
       !.sceeeQuantity = OrZero(extractedData.sceeeEnergy, extractedData.sceeeEnergy.quantity),
       !.sceeeValue = OrZero(extractedData.sceeeEnergy, extractedData.sceeeEnergy.value),
       !.compensatedEnergyQuantity =
            OrZero(extractedData.compensatedEnergy, extractedData.compensatedEnergy.quantity),
       !.compensatedEnergyValue =
            OrZero(extractedData.compensatedEnergy, extractedData.compensatedEnergy.value),
       !.publicLightingContrib =
            OrZero(extractedData.publicLightingContrib, extractedData.publicLightingContrib.value),
       !.totalEnergyConsumption = calculatedData.totalEnergyConsumption,
       !.compensatedEnergy = calculatedData.compensatedEnergy,
       !.totalValueWithoutGD = calculatedData.totalValueWithoutGD,
       !.gdEconomy = calculatedData.gdEconomy,
       !.processingStatus = "COMPLETED"]

\* The FAILED update without errorMessage in its data.
FailedPatch_noMessage(bill, llmError) ==
    [bill EXCEPT !.processingStatus = "FAILED"]

\* data of prisma.energyBill.update(... FAILED)
FailedPatch(bill, llmError) ==
    [bill EXCEPT !.processingStatus = "FAILED", !.errorMessage = llmError.message]

\* A row that is in the table when the service starts: the upload of pdfA
\* queued by an earlier process and never picked up (PENDING is the one
\* status the pipeline itself never writes).
SeedBill ==
    [InitialBill(1, MulterFile("pdfA", "application/pdf", MaxFileSize - 1,
                               NameOf("pdfA"), SeedPath),
                 generateFileHash("pdfA"))
       EXCEPT !.processingStatus = "PENDING"]

----------------------------------------------------------------------------
\* State.

VARIABLES
    bills,   \* energyBill table: row i has id i (ids are never reused)
    logs,    \* processingLog table: a bag of rows
    disk,    \* upload directory: path -> bytes ("" when nothing is there)
    run,     \* per request: where it is in the code, and its locals
    calc,    \* a direct call of calculateDerivedValues and the reads after it
    query,   \* a read request (list, dashboard) and its answer
    batch    \* a call of uploadBillsBatch: its files and its results so far

vars == <<bills, logs, disk, run, calc, query, batch>>

IdleRun ==
    [pc |-> "idle", op |-> "none",
     file |-> NullFile, fileHash |-> "",      \* locals of uploadAndProcessBill
     billId |-> 0,                            \* initialBill.id, 0 before create
     data |-> NoData,                         \* extractedData
     dbCreateError |-> NoError,               \* error caught at line 105
     err |-> NoError,                         \* llmError
     target |-> 0,                            \* id argument of reprocessBill
     returned |-> FALSE, resultBillId |-> 0,  \* value the call resolved with
     thrown |-> NoError,                      \* error the call rejected with
     \* calls made so far (what a jest mock would count)
     nFind |-> 0, nCreate |-> 0, nUpdate |-> 0, nLog |-> 0, nLlm |-> 0, nRead |-> 0,
     lostLogs |-> {}]                         \* log writes that threw

\* UploadBillResponseDto
UploadBillResponse(bill) ==
    [id |-> bill.id,
     customerNumber |-> bill.customerNumber, referenceMonth |-> bill.referenceMonth,
     originalFileName |-> bill.originalFileName,
     processingStatus |-> bill.processingStatus,
     totalEnergyConsumption |-> bill.totalEnergyConsumption,
     compensatedEnergy |-> bill.compensatedEnergy,
     totalValueWithoutGD |-> bill.totalValueWithoutGD,
     gdEconomy |-> bill.gdEconomy]

\* JavaScript values in the JSON answer of the language model.
JsUndefined == [t |-> "undefined", s |-> "", n |-> 0]
JsNull == [t |-> "null", s |-> "", n |-> 0]
JsString(s) == [t |-> "string", s |-> s, n |-> 0]
JsNumber(n) == [t |-> "number", s |-> "", n |-> n]
\* { quantity, value }
JsItem(q, v) == [t |-> "object", quantity |-> q, value |-> v]
JsNoItem(v) == [t |-> v.t, quantity |-> JsUndefined, value |-> JsUndefined]

\* The parsed answer; isNull: the answer is the JSON text `null`.
NoRawData ==
    [isNull |-> FALSE, given |-> FALSE,
     customerNumber |-> JsUndefined, referenceMonth |-> JsUndefined,
     electricEnergy |-> JsNoItem(JsUndefined), sceeeEnergy |-> JsNoItem(JsNull),
     compensatedEnergy |-> JsNoItem(JsNull), publicLightingContrib |-> JsNull]

NoCalculatedData ==
    [totalEnergyConsumption |-> 0, compensatedEnergy |-> 0,
     totalValueWithoutGD |-> 0, gdEconomy |-> 0]

IdleCalc ==
    [pc |-> "idle",
     rawData |-> NoRawData,                  \* argument of validateAndTransformData
     extractedData |-> NoData,               \* argument of calculateDerivedValues
     calculatedData |-> NoCalculatedData,    \* its result
     billId |-> 0,                           \* row the result was stored on
     thrown |-> NoError,
     byId |-> << >>,                         \* what getBillById resolved with
     list |-> << >>]                         \* bills of what getBills resolved with

\* BillFilterDto / DashboardFilterDto: "" and 0 stand for a field that is
\* not given.  Dates are creation instants.
NoFilter == [customerNumber |-> "", referenceMonth |-> "", status |-> "",
             startDate |-> 0, endDate |-> 0]

\* BillListResponseDto
NoBillList == [bills |-> << >>, total |-> 0, page |-> 0, limit |-> 0, totalPages |-> 0]

\* EnergyResultsDto, FinancialResultsDto, DashboardSummaryDto.  Percentages
\* are in hundredths of a percent.
NoEnergyResults ==
    [totalEnergyConsumption |-> 0, totalCompensatedEnergy |-> 0,
     consumptionVsCompensation |-> [consumption |-> 0, compensation |-> 0, percentage |-> 0],
     monthlyData |-> << >>]
NoFinancialResults ==
    [totalValueWithoutGD |-> 0, totalGdEconomy |-> 0,
     economyVsTotal |-> [totalValue |-> 0, economy |-> 0, economyPercentage |-> 0],
     monthlyData |-> << >>]
NoSummary == [totalBills |-> 0, processedBills |-> 0, failedBills |-> 0, pendingBills |-> 0]

IdleQuery ==
    [pc |-> "idle", op |-> "none",
     filters |-> NoFilter, page |-> 0, limit |-> 0,   \* arguments
     store |-> << >>,                                 \* the table when the call was made
     thrown |-> NoError,
     list |-> NoBillList,                             \* what getBills resolved with
     energyResults |-> NoEnergyResults,               \* answers of the dashboard
     financialResults |-> NoFinancialResults,
     summary |-> NoSummary]

IdleBatch ==
    [pc |-> "idle",
     files |-> << >>,                         \* argument of uploadBillsBatch
     i |-> 0,                                 \* 1 + the loop variable i
     results |-> << >>,
     returned |-> FALSE, thrown |-> NoError]

\* The request rejects with error e.
Throw(rs, e) == [rs EXCEPT !.pc = "done", !.thrown = e]

LogRow(billId, operation, status) ==
    [billId |-> billId, operation |-> operation, status |-> status]

Init ==
    /\ bills \in {<< >>, << SeedBill >>}
    /\ logs = EmptyBag
    /\ disk = [p \in Paths |-> IF p = SeedPath /\ bills # << >> THEN "pdfA" ELSE ""]
    /\ run = [r \in Runs |-> IdleRun]
    /\ calc = IdleCalc
    /\ query = IdleQuery
    /\ batch = IdleBatch

----------------------------------------------------------------------------
\* Store operations.

\* findFirst that does not count FAILED rows as duplicates.
findFirst_skipFailed(b, fileHash) ==
    IF \E i \in DOMAIN b : b[i].fileHash = fileHash /\ b[i].processingStatus # "FAILED"
    THEN CHOOSE i \in DOMAIN b : b[i].fileHash = fileHash /\ b[i].processingStatus # "FAILED"
    ELSE 0

\* prisma.energyBill.findFirst({where: {fileHash}}): id of a row, 0 for null
findFirst(b, fileHash) ==
    IF \E i \in DOMAIN b : b[i].fileHash = fileHash
    THEN CHOOSE i \in DOMAIN b : b[i].fileHash = fileHash
    ELSE 0

\* A table without the unique index.
UniqueViolation_noIndex(b, fileHash) == FALSE

\* The unique index on energyBill.fileHash rejects the insert.
UniqueViolation(b, fileHash) == \E i \in DOMAIN b : b[i].fileHash = fileHash

\* createProcessingLog: the write either succeeds or throws; the helper
\* catches the error, so the caller continues either way.
createProcessingLog(l, billId, operation, status, ok) ==
    IF ok THEN l (+) SetToBag({LogRow(billId, operation, status)}) ELSE l

\* What processingLog.create throws when the write fails.
LogError == DbError("processingLog.create")

\* A createProcessingLog without its try/catch: the error of the write
\* becomes the error of the request.
AfterLog_propagates(rs, operation, ok) ==
    [rs EXCEPT !.nLog = @ + 1,
               !.lostLogs = IF ok THEN @ ELSE @ \cup {operation},
               !.thrown = IF ok THEN @ ELSE LogError]

\* The request after a call of createProcessingLog: the catch at lines
\* 385-387 keeps the error of a failed write from the caller.
AfterLog(rs, operation, ok) ==
    [rs EXCEPT !.nLog = @ + 1,
               !.lostLogs = IF ok THEN @ ELSE @ \cup {operation}]

----------------------------------------------------------------------------
\* uploadAndProcessBill

\* Lines 57-78: the synchronous prefix, up to the first await.
EnterUpload(rs, file) ==
    IF ~file.present THEN Throw([rs EXCEPT !.file = file], TypeErrorNullFile)
    ELSE IF validateFile(file) # NoError
    THEN Throw([rs EXCEPT !.file = file], validateFile(file))
    ELSE [rs EXCEPT !.pc = "findFirst", !.file = file,
                    !.fileHash = generateFileHash(file.buffer)]

\* Requests are numbered in order of arrival.
NextToArrive(r) == IF r = 1 THEN TRUE ELSE run[r - 1].pc # "idle"

\* uploadAndProcessBill(file) is called; the upload layer has written the
\* bytes of a file that is there to file.path.
Upload(r, file) ==
    /\ run[r].pc = "idle"
    /\ NextToArrive(r)
    /\ run' = [run EXCEPT ![r] = EnterUpload([@ EXCEPT !.op = "upload"], file)]
    /\ disk' = IF file.present THEN [disk EXCEPT ![file.path] = file.buffer] ELSE disk
    /\ UNCHANGED <<bills, logs, calc, query, batch>>

\* Lines 78-85: duplicate pre-check.
FindFirst(r) ==
    /\ run[r].pc = "findFirst"
    /\ LET existingBill == findFirst(bills, run[r].fileHash)
           rs == [run[r] EXCEPT !.nFind = @ + 1]
       IN run' = [run EXCEPT ![r] =
                    IF existingBill # 0
                    THEN Throw(rs, BadRequestException(MsgDuplicate))
                    ELSE [rs EXCEPT !.pc = "create"]]
    /\ UNCHANGED <<bills, logs, disk, calc, query, batch>>

\* A create whose failure reaches the caller as a client error.
Create_wrapsError(r) ==
    /\ run[r].pc = "create"
    /\ LET rs == [run[r] EXCEPT !.nCreate = @ + 1]
           id == Len(bills) + 1
       IN \/ /\ ~UniqueViolation(bills, run[r].fileHash)
             /\ bills' = Append(bills, InitialBill(id, run[r].file, run[r].fileHash))
             /\ run' = [run EXCEPT ![r] = [rs EXCEPT !.pc = "logStarted", !.billId = id]]
          \/ /\ UniqueViolation(bills, run[r].fileHash)
             /\ run' = [run EXCEPT ![r] =
                          Throw([rs EXCEPT !.dbCreateError = DbUniqueError],
                                BadRequestException(MsgDuplicate))]
             /\ UNCHANGED bills
          \/ /\ run' = [run EXCEPT ![r] =
                          Throw([rs EXCEPT !.dbCreateError = DbError("create")],
                                BadRequestException(DbError("create").message))]
             /\ UNCHANGED bills
    /\ UNCHANGED <<logs, disk, calc, query, batch>>

\* Lines 87-108: create the PROCESSING row; a store error is rethrown as is.
Create(r) ==
    /\ run[r].pc = "create"
    /\ LET rs == [run[r] EXCEPT !.nCreate = @ + 1]
           id == Len(bills) + 1
       IN \/ /\ ~UniqueViolation(bills, run[r].fileHash)
             /\ bills' = Append(bills, InitialBill(id, run[r].file, run[r].fileHash))
             /\ run' = [run EXCEPT ![r] = [rs EXCEPT !.pc = "logStarted", !.billId = id]]
          \/ /\ UniqueViolation(bills, run[r].fileHash)
             /\ run' = [run EXCEPT ![r] =
                          Throw([rs EXCEPT !.dbCreateError = DbUniqueError], DbUniqueError)]
             /\ UNCHANGED bills
          \/ /\ run' = [run EXCEPT ![r] =
                          Throw([rs EXCEPT !.dbCreateError = DbError("create")],
                                DbError("create"))]
             /\ UNCHANGED bills
    /\ UNCHANGED <<logs, disk, calc, query, batch>>

\* Lines 110-117
LogUploadStarted(r) ==
    /\ run[r].pc = "logStarted"
    /\ \E ok \in BOOLEAN :
         /\ logs' = createProcessingLog(logs, run[r].billId, "upload_started", "success", ok)
         /\ run' = [run EXCEPT ![r] = [AfterLog(@, "upload_started", ok) EXCEPT !.pc = "extract"]]
    /\ UNCHANGED <<bills, disk, calc, query, batch>>

\* A gateway call that is repeated once after a failure.
ExtractBillData_retries(r) ==
    /\ run[r].pc = "extract"
    /\ \/ \E extractedData \in ExtractedSamples :
            run' = [run EXCEPT ![r].pc = "updateCompleted", ![r].nLlm = @ + 1,
                               ![r].data = extractedData]
       \/ \E llmError \in LlmErrors :
            run' = [run EXCEPT ![r].pc = IF run[r].nLlm = 0 THEN "extract" ELSE "updateFailed",
                               ![r].nLlm = @ + 1,
                               ![r].err = IF run[r].nLlm = 0 THEN NoError ELSE llmError]
    /\ UNCHANGED <<bills, logs, disk, calc, query, batch>>

\* Lines 119-125: the Extraction Gateway answers or throws.
ExtractBillData(r) ==
    /\ run[r].pc = "extract"
    /\ \/ \E extractedData \in ExtractedSamples :
            run' = [run EXCEPT ![r].pc = "updateCompleted", ![r].nLlm = @ + 1,
                               ![r].data = extractedData]
       \/ \E llmError \in LlmErrors :
            run' = [run EXCEPT ![r].pc = "updateFailed", ![r].nLlm = @ + 1,
                               ![r].err = llmError]
    /\ UNCHANGED <<bills, logs, disk, calc, query, batch>>

\* Lines 127-151: calculateDerivedValues, then the COMPLETED update; when the
\* update throws, its error is the llmError of the catch block (where the
\* extractedData of the try block is out of scope).
UpdateCompleted(r) ==
    /\ run[r].pc = "updateCompleted"
    /\ LET id == run[r].billId
           calculatedData == calculateDerivedValues(run[r].data)
       IN \/ /\ bills' = [bills EXCEPT ![id] = CompletedPatch(@, run[r].data, calculatedData)]
             /\ run' = [run EXCEPT ![r].pc = "logCompleted", ![r].nUpdate = @ + 1]
          \/ /\ run' = [run EXCEPT ![r].pc = "updateFailed", ![r].nUpdate = @ + 1,
                                   ![r].data = NoData,
                                   ![r].err = DbError("update COMPLETED")]
             /\ UNCHANGED bills
    /\ UNCHANGED <<logs, disk, calc, query, batch>>

\* Lines 153-173: log, then resolve with the id of the updated row.
LogProcessingCompleted(r) ==
    /\ run[r].pc = "logCompleted"
    /\ \E ok \in BOOLEAN :
         /\ logs' = createProcessingLog(logs, bills[run[r].billId].id,
                                        "processing_completed", "success", ok)
         /\ run' = [run EXCEPT ![r] =
                      [AfterLog(@, "processing_completed", ok)
                         EXCEPT !.pc = "done", !.returned = TRUE, !.data = NoData,
                                !.resultBillId = bills[run[r].billId].id]]
    /\ UNCHANGED <<bills, disk, calc, query, batch>>

\* A guarded FAILED update: when it throws, the catch block goes on to its
\* log write.
UpdateFailed_continues(r) ==
    /\ run[r].pc = "updateFailed"
    /\ LET id == run[r].billId
       IN \/ /\ bills' = [bills EXCEPT ![id] = FailedPatch(@, run[r].err)]
             /\ run' = [run EXCEPT ![r].pc = "logFailed", ![r].nUpdate = @ + 1]
          \/ /\ run' = [run EXCEPT ![r].pc = "logFailed", ![r].nUpdate = @ + 1]
             /\ UNCHANGED bills
    /\ UNCHANGED <<logs, disk, calc, query, batch>>

\* Lines 175-184: the FAILED update inside the catch block is not guarded;
\* when it throws, its error leaves the catch block.
UpdateFailed(r) ==
    /\ run[r].pc = "updateFailed"
    /\ LET id == run[r].billId
       IN \/ /\ bills' = [bills EXCEPT ![id] = FailedPatch(@, run[r].err)]
             /\ run' = [run EXCEPT ![r].pc = "logFailed", ![r].nUpdate = @ + 1]
          \/ /\ run' = [run EXCEPT ![r] = Throw([@ EXCEPT !.nUpdate = @ + 1],
                                                DbError("update FAILED"))]
             /\ UNCHANGED bills
    /\ UNCHANGED <<logs, disk, calc, query, batch>>

\* Lines 186-201: log, then throw llmError (the outer catch rethrows it).
LogProcessingFailed(r) ==
    /\ run[r].pc = "logFailed"
    /\ \E ok \in BOOLEAN :
         /\ logs' = createProcessingLog(logs, run[r].billId, "processing_failed", "error", ok)
         /\ run' = [run EXCEPT ![r] = Throw(AfterLog(@, "processing_failed", ok), run[r].err)]
    /\ UNCHANGED <<bills, disk, calc, query, batch>>

----------------------------------------------------------------------------
\* reprocessBill

\* An eligibility check that only turns COMPLETED bills away.
Reprocessable_notCompleted(bill) == bill.processingStatus # "COMPLETED"

\* Line 22: only FAILED bills are eligible.
Reprocessable(bill) == bill.processingStatus = "FAILED"

\* fakeFile of lines 26-37
FakeFile(bill, buffer) ==
    MulterFile(buffer, "application/pdf", bill.fileSize, bill.originalFileName, bill.filePath)

\* The controller calls reprocessBill(id).
ReprocessBill(r, id) ==
    /\ run[r].pc = "idle"
    /\ NextToArrive(r)
    /\ run' = [run EXCEPT ![r].op = "reprocess", ![r].pc = "findUnique", ![r].target = id]
    /\ UNCHANGED <<bills, logs, disk, calc, query, batch>>

\* A lookup that reports an unknown id with the error of an ineligible bill.
FindUnique_badRequest(r) ==
    /\ run[r].pc = "findUnique"
    /\ LET id == run[r].target
       IN run' = [run EXCEPT ![r] =
                    IF id \notin DOMAIN bills
                    THEN Throw(@, BadRequestException(MsgNotFound))
                    ELSE IF ~Reprocessable(bills[id])
                    THEN Throw(@, BadRequestException(MsgNotFailed))
                    ELSE [@ EXCEPT !.pc = "readFile"]]
    /\ UNCHANGED <<bills, logs, disk, calc, query, batch>>

\* Lines 18-24: look the bill up, check that it is FAILED.
FindUnique(r) ==
    /\ run[r].pc = "findUnique"
    /\ LET id == run[r].target
       IN run' = [run EXCEPT ![r] =
                    IF id \notin DOMAIN bills
                    THEN Throw(@, NotFoundException(MsgNotFound))
                    ELSE IF ~Reprocessable(bills[id])
                    THEN Throw(@, BadRequestException(MsgNotFailed))
                    ELSE [@ EXCEPT !.pc = "readFile"]]
    /\ UNCHANGED <<bills, logs, disk, calc, query, batch>>

\* A reprocess that puts the original row back to PROCESSING before it
\* starts the new run.
GetFileBuffer_resetsOriginal(r) ==
    /\ run[r].pc = "readFile"
    /\ LET bill == bills[run[r].target]
           rs == [run[r] EXCEPT !.nRead = @ + 1]
       IN \/ /\ disk[bill.filePath] # ""
             /\ run' = [run EXCEPT ![r] =
                          EnterUpload(rs, FakeFile(bill, disk[bill.filePath]))]
             /\ bills' = [bills EXCEPT ![run[r].target].processingStatus = "PROCESSING"]
          \/ /\ run' = [run EXCEPT ![r] = Throw(rs, BadRequestException(MsgReadFile))]
             /\ UNCHANGED bills
    /\ UNCHANGED <<logs, disk, calc, query, batch>>

\* Lines 25-49: getFileBuffer reads the saved file (the bill is the one
\* read at line 18); on success uploadAndProcessBill(fakeFile) starts.
GetFileBuffer(r) ==
    /\ run[r].pc = "readFile"
    /\ LET bill == bills[run[r].target]
           rs == [run[r] EXCEPT !.nRead = @ + 1]
       IN \/ /\ disk[bill.filePath] # ""
             /\ run' = [run EXCEPT ![r] =
                          EnterUpload(rs, FakeFile(bill, disk[bill.filePath]))]
          \/ run' = [run EXCEPT ![r] = Throw(rs, BadRequestException(MsgReadFile))]
    /\ UNCHANGED <<bills, logs, disk, calc, query, batch>>

----------------------------------------------------------------------------

\* The controller is called with the id of a stored bill or with an id
\* that no bill has.
BillIds == 1..(Len(bills) + 1)

UploadedFiles(r) ==
    {NullFile} \cup
    { MulterFile(d, m, sz, NameOf(d), PathOf(r)) : d \in Docs, m \in MimeTypes, sz \in Sizes }

Next ==
    \E r \in Runs :
        \/ \E file \in UploadedFiles(r) : Upload(r, file)
        \/ FindFirst(r)
        \/ Create(r)
        \/ LogUploadStarted(r)
        \/ ExtractBillData(r)
        \/ UpdateCompleted(r)
        \/ LogProcessingCompleted(r)
        \/ UpdateFailed(r)
        \/ LogProcessingFailed(r)
        \/ \E id \in BillIds : ReprocessBill(r, id)
        \/ FindUnique(r)
        \/ GetFileBuffer(r)

Spec == Init /\ [][Next]_vars

----------------------------------------------------------------------------
\* uploadBillsBatch (dashboard.controller.ts lines 434-486).  The call of
\* uploadAndProcessBill for files[i] is request i.

\* ProcessBillResponseDto of one file; billId 0 is the empty string.
BatchSuccess(file, result) ==
    [success |-> TRUE, billId |-> result, fileName |-> file.originalname, error |-> ""]
BatchFailure(file, error) ==
    [success |-> FALSE, billId |-> 0, fileName |-> file.originalname,
     error |-> error.message]

\* The files of a batch: the upload layer stores file i at its own path.
BatchFile(i) ==
    { MulterFile(d, m, sz, NameOf(d), PathOf(i)) : d \in Docs, m \in MimeTypes, sz \in Sizes }
BatchFiles ==
    UNION { { f \in [1..n -> UNION { BatchFile(i) : i \in Runs }] :
              \A i \in 1..n : f[i] \in BatchFile(i) } : n \in 0..MaxRuns }

\* Lines 447-450: the iteration for files[i] starts, up to the first await
\* inside uploadAndProcessBill.
StartFile(i, files) ==
    /\ run[i].pc = "idle"
    /\ run' = [run EXCEPT ![i] = EnterUpload([@ EXCEPT !.op = "upload"], files[i])]
    /\ disk' = [disk EXCEPT ![files[i].path] = files[i].buffer]

\* Lines 434-450: the call, up to its first await; with no file it returns
\* the empty list.
UploadBillsBatch(files) ==
    /\ batch.pc = "idle"
    /\ IF files = << >>
       THEN /\ batch' = [batch EXCEPT !.pc = "done", !.returned = TRUE]
            /\ UNCHANGED <<run, disk>>
       ELSE /\ batch' = [batch EXCEPT !.pc = "await", !.files = files, !.i = 1]
            /\ StartFile(1, files)
    /\ UNCHANGED <<bills, logs, calc, query>>

\* A batch that gives up at the first file that fails.
BatchCollect_rethrows ==
    /\ batch.pc = "await"
    /\ run[batch.i].pc = "done"
    /\ LET rs == run[batch.i]
           file == batch.files[batch.i]
       IN batch' =
            IF ~rs.returned
            THEN [batch EXCEPT !.pc = "done", !.thrown = rs.thrown]
            ELSE [batch EXCEPT
                    !.results = Append(@, BatchSuccess(file, rs.resultBillId)),
                    !.pc = IF batch.i < Len(batch.files) THEN "delay" ELSE "done",
                    !.returned = ~(batch.i < Len(batch.files))]
    /\ UNCHANGED <<bills, logs, disk, run, calc, query>>

\* Lines 450-485: uploadAndProcessBill has settled; its result or its error
\* is pushed, then the loop waits before the next file or the call returns.
BatchCollect ==
    /\ batch.pc = "await"
    /\ run[batch.i].pc = "done"
    /\ LET rs == run[batch.i]
           file == batch.files[batch.i]
           result == IF rs.returned THEN BatchSuccess(file, rs.resultBillId)
                     ELSE BatchFailure(file, rs.thrown)
       IN batch' = [batch EXCEPT
                      !.results = Append(@, result),
                      !.pc = IF batch.i < Len(batch.files) THEN "delay" ELSE "done",
                      !.returned = ~(batch.i < Len(batch.files))]
    /\ UNCHANGED <<bills, logs, disk, run, calc, query>>

\* Lines 474-477 and 442-450: the delay is over and the next iteration starts.
BatchNextFile ==
    /\ batch.pc = "delay"
    /\ batch' = [batch EXCEPT !.pc = "await", !.i = @ + 1]
    /\ StartFile(batch.i + 1, batch.files)
    /\ UNCHANGED <<bills, logs, calc, query>>

NextBatch ==
    \/ \E files \in BatchFiles : UploadBillsBatch(files)
    \/ BatchCollect
    \/ BatchNextFile
    \/ \E r \in Runs :
          \/ FindFirst(r)
          \/ Create(r)
          \/ LogUploadStarted(r)
          \/ ExtractBillData(r)
          \/ UpdateCompleted(r)
          \/ LogProcessingCompleted(r)
          \/ UpdateFailed(r)
          \/ LogProcessingFailed(r)

SpecBatch == Init /\ [][NextBatch]_vars

----------------------------------------------------------------------------
\* calculateDerivedValues called directly, as the unit tests do, on every
\* combination of present and absent optional fields; its result stored on
\* a row and read back.

ElectricInputs == { Absent, Pair(50, 4567), Pair(100, 9000) }
SceeeInputs == { Absent, Pair(476, 39250), Pair(0, 0) }
\* compensatedEnergy.value is a credit (negative) on real bills.
CompensatedInputs == { Absent, Pair(526, 0 - 43817), Pair(526, 43817), Pair(0, 0) }
LightingInputs == { Absent, Pair(0, 2345), Pair(0, 0) }

CalcInputs ==
    { [customerNumber |-> "7202210726", referenceMonth |-> "SET/2024",
       electricEnergy |-> e, sceeeEnergy |-> s,
       compensatedEnergy |-> c, publicLightingContrib |-> l] :
      e \in ElectricInputs, s \in SceeeInputs,
      c \in CompensatedInputs, l \in LightingInputs }

CalcFile == MulterFile("pdfA", "application/pdf", MaxFileSize, NameOf("pdfA"), PathOf(1))

\* LlmService.validateAndTransformData

\* `v || 0`, `v ? ... : ...`
Truthy(v) ==
    \/ v.t = "object"
    \/ v.t = "string" /\ v.s # ""
    \/ v.t = "number" /\ v.n # 0

\* String.prototype.trim and toUpperCase on the strings of the model.
Trim(s) ==
    CASE s = "  " -> ""
      [] s = " 7202210726 " -> "7202210726"
      [] s = " set/2024 " -> "set/2024"
      [] OTHER -> s
ToUpperCase(s) ==
    CASE s = "set/2024" -> "SET/2024"
      [] s = " set/2024 " -> " SET/2024 "
      [] OTHER -> s

\* String(v || '')
StringOrEmpty(v) == IF Truthy(v) /\ v.t = "string" THEN v.s ELSE ""

\* Number(v): NaN for a text that is not a number.  Amounts are in
\* centavos: the text "45.67" is the number 4567.
NaN == [nan |-> TRUE, n |-> 0]
Num(n) == [nan |-> FALSE, n |-> n]
Number(v) ==
    CASE v.t = "number" -> Num(v.n)
      [] v.t = "string" ->
           ( CASE v.s = "50" -> Num(50)
               [] v.s = "0" -> Num(0)
               [] v.s = "45.67" -> Num(4567)
               [] v.s = "23.45" -> Num(2345)
               [] v.s = "" -> Num(0)
               [] OTHER -> NaN )
      [] v.t = "null" -> Num(0)
      [] OTHER -> NaN

\* Number(v || 0)
NumberOrZero(v) == IF Truthy(v) THEN Number(v) ELSE Num(0)

\* data.item ? { quantity: Number(...), value: Number(...) } : null
ItemOrNull(item) ==
    IF Truthy(item)
    THEN Pair(NumberOrZero(item.quantity).n, NumberOrZero(item.value).n)
    ELSE Absent

InvalidData(message) == BadRequestException("Dados extraidos invalidos: " \o message)

\* A validation that lets a zero electric energy through.
validateAndTransformData_noQuantityCheck(data) ==
    LET customerNumber == Trim(StringOrEmpty(data.customerNumber))
        referenceMonth == ToUpperCase(Trim(StringOrEmpty(data.referenceMonth)))
        quantity == NumberOrZero(data.electricEnergy.quantity)
        value == NumberOrZero(data.electricEnergy.value)
        transformed ==
            [customerNumber |-> customerNumber, referenceMonth |-> referenceMonth,
             electricEnergy |-> Pair(quantity.n, value.n),
             sceeeEnergy |-> ItemOrNull(data.sceeeEnergy),
             compensatedEnergy |-> ItemOrNull(data.compensatedEnergy),
             publicLightingContrib |->
                 IF data.publicLightingContrib.t # "null"
                 THEN Pair(0, Number(data.publicLightingContrib).n) ELSE Absent]
    IN IF data.isNull
       THEN [thrown |-> InvalidData("Cannot read properties of null"), value |-> NoData]
       ELSE IF customerNumber = ""
       THEN [thrown |-> InvalidData("Numero do cliente nao encontrado"), value |-> NoData]
       ELSE IF referenceMonth = ""
       THEN [thrown |-> InvalidData("Mes de referencia nao encontrado"), value |-> NoData]
       ELSE [thrown |-> NoError, value |-> transformed]

\* app.service.ts lines 179-222: the error it throws, or the transformed
\* data.  data.electricEnergy?.quantity of a missing electricEnergy is
\* undefined; `!quantity` is true of 0 and of NaN.
validateAndTransformData(data) ==
    LET customerNumber == Trim(StringOrEmpty(data.customerNumber))
        referenceMonth == ToUpperCase(Trim(StringOrEmpty(data.referenceMonth)))
        quantity == NumberOrZero(data.electricEnergy.quantity)
        value == NumberOrZero(data.electricEnergy.value)
        transformed ==
            [customerNumber |-> customerNumber, referenceMonth |-> referenceMonth,
             electricEnergy |-> Pair(quantity.n, value.n),
             sceeeEnergy |-> ItemOrNull(data.sceeeEnergy),
             compensatedEnergy |-> ItemOrNull(data.compensatedEnergy),
             publicLightingContrib |->
                 IF data.publicLightingContrib.t # "null"
                 THEN Pair(0, Number(data.publicLightingContrib).n) ELSE Absent]
    IN IF data.isNull
       THEN [thrown |-> InvalidData("Cannot read properties of null"), value |-> NoData]
       ELSE IF customerNumber = ""
       THEN [thrown |-> InvalidData("Numero do cliente nao encontrado"), value |-> NoData]
       ELSE IF referenceMonth = ""
       THEN [thrown |-> InvalidData("Mes de referencia nao encontrado"), value |-> NoData]
       ELSE IF quantity.nan \/ quantity.n = 0
       THEN [thrown |-> InvalidData("Energia eletrica nao encontrada"), value |-> NoData]
       ELSE [thrown |-> NoError, value |-> transformed]

\* Answers of the language model: the customer and the month missing,
\* blank, padded, in lower case; the electric energy missing, zero, as
\* text, not a number; the optional items null or given.
RawCustomers == { JsUndefined, JsString(""), JsString("  "),
                  JsString("7202210726"), JsString(" 7202210726 ") }
RawMonths == { JsUndefined, JsString(" set/2024 "), JsString("SET/2024") }
RawQuantities == { JsUndefined, JsNumber(0), JsNumber(50),
                   JsString("50"), JsString("0"), JsString("abc") }
RawValues == { JsNumber(4567), JsString("45.67") }
RawElectric ==
    { JsNoItem(JsUndefined) } \cup { JsItem(q, v) : q \in RawQuantities, v \in RawValues }
RawSceee == { JsNoItem(JsNull), JsItem(JsNumber(476), JsNumber(39250)) }
RawCompensated == { JsNoItem(JsNull), JsItem(JsNumber(526), JsNumber(0 - 43817)) }
RawLighting == { JsNull, JsNumber(2345), JsString("23.45") }

RawAnswers ==
    { [NoRawData EXCEPT !.isNull = TRUE, !.given = TRUE] } \cup
    { [isNull |-> FALSE, given |-> TRUE,
       customerNumber |-> c, referenceMonth |-> m, electricEnergy |-> e,
       sceeeEnergy |-> s, compensatedEnergy |-> g, publicLightingContrib |-> l] :
      c \in RawCustomers, m \in RawMonths, e \in RawElectric,
      s \in RawSceee, g \in RawCompensated, l \in RawLighting }

\* A direct call of calculateDerivedValues, or an answer of the language
\* model that goes through validateAndTransformData first.
InitCalc ==
    /\ bills = << >>
    /\ logs = EmptyBag
    /\ disk = [p \in Paths |-> ""]
    /\ run = [r \in Runs |-> IdleRun]
    /\ calc \in { [IdleCalc EXCEPT !.pc = "calculate", !.extractedData = x] :
                   x \in CalcInputs }
               \cup { [IdleCalc EXCEPT !.pc = "validate", !.rawData = x] :
                      x \in RawAnswers }
    /\ query = IdleQuery
    /\ batch = IdleBatch

\* app.service.ts lines 139, 179-222: the answer is validated and becomes
\* the extractedData of the pipeline, or the call throws.
ValidateAndTransformData ==
    /\ calc.pc = "validate"
    /\ LET result == validateAndTransformData(calc.rawData)
       IN calc' = IF result.thrown # NoError
                  THEN [calc EXCEPT !.pc = "done", !.thrown = result.thrown]
                  ELSE [calc EXCEPT !.pc = "calculate", !.extractedData = result.value]
    /\ UNCHANGED <<bills, logs, disk, run, query, batch>>

\* Lines 342-366.  electricEnergy is read without `?.`: the call throws a
\* TypeError when the required field is missing.
Calculate ==
    /\ calc.pc = "calculate"
    /\ calc' = IF ~calc.extractedData.electricEnergy.present
               THEN [calc EXCEPT !.pc = "done",
                                 !.thrown = [kind |-> "TypeError",
                                             message |-> "Cannot read properties of null (reading 'quantity')"]]
               ELSE [calc EXCEPT !.pc = "store",
                                 !.calculatedData = calculateDerivedValues(calc.extractedData)]
    /\ UNCHANGED <<bills, logs, disk, run, query, batch>>

\* Lines 90-104 and 131-149: the row as create and the COMPLETED update
\* leave it.
StoreCompleted ==
    /\ calc.pc = "store"
    /\ LET id == Len(bills) + 1
       IN /\ bills' = Append(bills,
                  CompletedPatch(InitialBill(id, CalcFile, generateFileHash(CalcFile.buffer)),
                                 calc.extractedData, calc.calculatedData))
          /\ calc' = [calc EXCEPT !.pc = "getBillById", !.billId = id]
    /\ UNCHANGED <<logs, disk, run, query, batch>>

\* A response that reports the absolute value of gdEconomy.
getBillById_abs(b, id) ==
    [UploadBillResponse(b[id]) EXCEPT !.gdEconomy = IF @ < 0 THEN 0 - @ ELSE @]

\* Lines 289-300: the response built from the row.
getBillById(b, id) == UploadBillResponse(b[id])

\* Lines 279-310.
GetBillById(id) ==
    /\ calc.pc = "getBillById"
    /\ calc' = IF id \notin DOMAIN bills
               THEN [calc EXCEPT !.pc = "done", !.thrown = NotFoundException(MsgNotFound)]
               ELSE [calc EXCEPT !.pc = "getBills", !.byId = <<getBillById(bills, id)>>]
    /\ UNCHANGED <<bills, logs, disk, run, query, batch>>

\* Prisma `contains` with mode 'insensitive', on the strings of the model.
ContainsInsensitive(s, sub) ==
    <<s, sub>> \in { <<"7202210726", "7202">>, <<"SET/2024", "set">>,
                     <<"PROCESSING", "proc">> }

\* createdAt is set by the table when the row is inserted: rows are
\* inserted one after another, so the instants are in the order of the ids.
CreatedAt(bill) == bill.id

\* Lines 212-240: the where clause built from the filters.
MatchesBillFilter(bill, filters) ==
    /\ filters.customerNumber # "" =>
          ContainsInsensitive(bill.customerNumber, filters.customerNumber)
    /\ filters.referenceMonth # "" =>
          ContainsInsensitive(bill.referenceMonth, filters.referenceMonth)
    /\ filters.status # "" => bill.processingStatus = filters.status
    /\ filters.startDate # 0 => CreatedAt(bill) >= filters.startDate
    /\ filters.endDate # 0 => CreatedAt(bill) <= filters.endDate

Reverse(seq) == [i \in 1..Len(seq) |-> seq[Len(seq) + 1 - i]]
Range(seq) == { seq[i] : i \in DOMAIN seq }

\* findMany({ where, skip, take, orderBy: { createdAt: 'desc' } })
findMany(b, where, skip, take) ==
    LET matching == Reverse(SelectSeq(b, LAMBDA bill : MatchesBillFilter(bill, where)))
        last == IF skip + take < Len(matching) THEN skip + take ELSE Len(matching)
    IN SubSeq(matching, skip + 1, last)

\* count({ where })
count(b, where) == Len(SelectSeq(b, LAMBDA bill : MatchesBillFilter(bill, where)))

\* Math.ceil(total / limit), limit > 0
CeilDiv(total, limit) == (total + limit - 1) \div limit

\* A list that starts one page too far.
getBills_skipsPage(b, filters, page, limit) ==
    LET where == filters
        skip == page * limit
        found == findMany(b, where, skip, limit)
        total == count(b, where)
    IN [bills |-> [i \in 1..Len(found) |-> UploadBillResponse(found[i])],
        total |-> total, page |-> page, limit |-> limit,
        totalPages |-> CeilDiv(total, limit)]

\* Lines 209-269.
getBills(b, filters, page, limit) ==
    LET where == filters
        skip == (page - 1) * limit
        found == findMany(b, where, skip, limit)
        total == count(b, where)
    IN [bills |-> [i \in 1..Len(found) |-> UploadBillResponse(found[i])],
        total |-> total, page |-> page, limit |-> limit,
        totalPages |-> CeilDiv(total, limit)]

\* Lines 204-277.
GetBills ==
    /\ calc.pc = "getBills"
    /\ calc' = [calc EXCEPT !.pc = "done", !.list = getBills(bills, NoFilter, 1, 20).bills]
    /\ UNCHANGED <<bills, logs, disk, run, query, batch>>

NextCalc ==
    \/ ValidateAndTransformData
    \/ Calculate
    \/ StoreCompleted
    \/ \E id \in 1..2 : GetBillById(id)
    \/ GetBills

SpecCalc == InitCalc /\ [][NextCalc]_vars

----------------------------------------------------------------------------
\* Read requests on a table left behind by earlier uploads.

MaxBills == 3

\* What an upload can have left of its row.
RowKinds == {"PENDING", "PROCESSING", "FAILED", "COMPLETED-1", "COMPLETED-2", "COMPLETED-3"}

\* The answers of the gateway behind the three COMPLETED rows: two
\* customers, two months, with and without the optional items, a credit
\* as compensated value.  Monetary values in tenths of a real.
QueryData(kind) ==
    CASE kind = "COMPLETED-1" ->
           [customerNumber |-> "7202210726", referenceMonth |-> "SET/2024",
            electricEnergy |-> Pair(50, 457), sceeeEnergy |-> Pair(476, 3925),
            compensatedEnergy |-> Pair(526, 4382),
            publicLightingContrib |-> Pair(0, 235)]
      [] kind = "COMPLETED-2" ->
           [customerNumber |-> "7204000000", referenceMonth |-> "SET/2024",
            electricEnergy |-> Pair(100, 900), sceeeEnergy |-> Absent,
            compensatedEnergy |-> Absent, publicLightingContrib |-> Absent]
      [] OTHER ->
           [customerNumber |-> "7202210726", referenceMonth |-> "AGO/2024",
            electricEnergy |-> Pair(50, 457), sceeeEnergy |-> Pair(300, 2500),
            compensatedEnergy |-> Pair(350, 0 - 2900),
            publicLightingContrib |-> Absent]

QueryDoc(i) == CASE i = 1 -> "pdfA" [] i = 2 -> "pdfB" [] OTHER -> "pdfC"

\* Row i as the pipeline writes it: created, then left alone, marked FAILED
\* or completed.
QueryRow(i, kind) ==
    LET file == MulterFile(QueryDoc(i), "application/pdf", MaxFileSize,
                           "bill.pdf", PathOf(i))
        initialBill == InitialBill(i, file, generateFileHash(file.buffer))
    IN CASE kind = "PENDING" -> [initialBill EXCEPT !.processingStatus = "PENDING"]
         [] kind = "PROCESSING" -> initialBill
         [] kind = "FAILED" ->
              FailedPatch(initialBill, [kind |-> "Error", message |-> "LLM extraction failed"])
         [] OTHER ->
              CompletedPatch(initialBill, QueryData(kind),
                             calculateDerivedValues(QueryData(kind)))

QueryStores ==
    UNION { { [i \in 1..n |-> QueryRow(i, kinds[i])] : kinds \in [1..n -> RowKinds] } :
            n \in 0..MaxBills }

BillFilters ==
    [customerNumber : {"", "7202"}, referenceMonth : {"", "set"},
     status : {"", "COMPLETED", "FAILED"},
     startDate : {0, 2}, endDate : {0, 2}]

Pages == {1, 2}
Limits == {1, 2, 20}

\* DashboardService

\* A DashboardFilterDto as the controller builds it.  customerIsObject
\* tells a customerNumber that is not a string but a { contains, mode }
\* object, which is what a where clause holds under that key.
DashboardFilter(customerNumber, startDate, endDate) ==
    [customerNumber |-> customerNumber, customerIsObject |-> FALSE,
     startDate |-> startDate, endDate |-> endDate]

DashboardFilters ==
    { DashboardFilter(c, s, e) : c \in {"", "7202"}, s \in {0, 2}, e \in {0, 2} }

\* Lines 222-243: where.customerNumber = { contains: filters.customerNumber },
\* where.createdAt = { gte: startDate, lte: endDate }.
buildWhereClause(filters) ==
    [contains |-> filters.customerNumber, containsIsObject |-> filters.customerIsObject,
     gte |-> filters.startDate, lte |-> filters.endDate]

\* A where clause read as a DashboardFilterDto: its customerNumber is the
\* { contains, mode } object and it has no startDate and no endDate.
WhereAsFilters(where) ==
    [customerNumber |-> where.contains, customerIsObject |-> where.contains # "",
     startDate |-> 0, endDate |-> 0]

\* The store refuses a `contains` that is not a string.
InvalidWhere(where) == where.contains # "" /\ where.containsIsObject

MatchesWhere(bill, where) ==
    /\ where.contains # "" => ContainsInsensitive(bill.customerNumber, where.contains)
    /\ where.gte # 0 => CreatedAt(bill) >= where.gte
    /\ where.lte # 0 => CreatedAt(bill) <= where.lte

RECURSIVE SumSeq(_)
SumSeq(seq) == IF seq = << >> THEN 0 ELSE Head(seq) + SumSeq(Tail(seq))

\* aggregate({ where, _sum }) `|| 0`: null for no rows, 0 as the value.
SumOf(rows, field) == SumSeq([i \in 1..Len(rows) |-> rows[i][field]])

\* Math.round((part / whole) * 100 * 100) / 100 in hundredths of a percent
\* (Math.round rounds a half up), 0 unless whole > 0.
Percentage(part, whole) ==
    IF whole > 0 THEN (2 * part * 10000 + whole) \div (2 * whole) ELSE 0

\* The months of the model in ascending order of their text.
Months == <<"AGO/2024", "SET/2024">>

\* groupBy({ by: ['referenceMonth'], where, orderBy: asc }): the rows of
\* each month that has one.
RowsOfMonth(rows, month) == SelectSeq(rows, LAMBDA bill : bill.referenceMonth = month)
MonthsOf(rows) == SelectSeq(Months, LAMBDA month : RowsOfMonth(rows, month) # << >>)

\* where: { ...whereClause, processingStatus: COMPLETED }
CompletedRows(b, where) ==
    SelectSeq(b, LAMBDA bill : MatchesWhere(bill, where)
                               /\ bill.processingStatus = "COMPLETED")

\* Lines 50-108; the caller has checked the where clause.
getEnergyResults(b, filters) ==
    LET rows == CompletedRows(b, buildWhereClause(filters))
        Consumption == "totalEnergyConsumption"
        Compensation == "compensatedEnergy"
        totalConsumption == SumOf(rows, Consumption)
        totalCompensation == SumOf(rows, Compensation)
        months == MonthsOf(rows)
    IN [totalEnergyConsumption |-> totalConsumption,
        totalCompensatedEnergy |-> totalCompensation,
        consumptionVsCompensation |->
            [consumption |-> totalConsumption, compensation |-> totalCompensation,
             percentage |-> Percentage(totalCompensation, totalConsumption)],
        monthlyData |->
            [k \in 1..Len(months) |->
                [month |-> months[k],
                 consumption |-> SumOf(RowsOfMonth(rows, months[k]), Consumption),
                 compensation |-> SumOf(RowsOfMonth(rows, months[k]), Compensation)]]]

\* Lines 110-168
getFinancialResults(b, filters) ==
    LET rows == CompletedRows(b, buildWhereClause(filters))
        Value == "totalValueWithoutGD"
        Economy == "gdEconomy"
        totalValue == SumOf(rows, Value)
        totalEconomy == SumOf(rows, Economy)
        months == MonthsOf(rows)
    IN [totalValueWithoutGD |-> totalValue,
        totalGdEconomy |-> totalEconomy,
        economyVsTotal |->
            [totalValue |-> totalValue, economy |-> totalEconomy,
             economyPercentage |-> Percentage(totalEconomy, totalValue)],
        monthlyData |->
            [k \in 1..Len(months) |->
                [month |-> months[k],
                 totalValue |-> SumOf(RowsOfMonth(rows, months[k]), Value),
                 economy |-> SumOf(RowsOfMonth(rows, months[k]), Economy)]]]

\* _count of the group of a status, 0 when the status has no group.
CountOf(b, where, status) ==
    Len(SelectSeq(b, LAMBDA bill : MatchesWhere(bill, where)
                                   /\ bill.processingStatus = status))

\* Lines 170-220.  groupBy lists the groups in no particular order;
\* `first` is the one of PROCESSING and PENDING that comes first when both
\* are there, which is the group that statusCounts.find returns.
getDashboardSummary(b, where, first) ==
    LET other == IF first = "PENDING" THEN "PROCESSING" ELSE "PENDING"
    IN [totalBills |-> Len(SelectSeq(b, LAMBDA bill : MatchesWhere(bill, where))),
        processedBills |-> CountOf(b, where, "COMPLETED"),
        failedBills |-> CountOf(b, where, "FAILED"),
        pendingBills |-> IF CountOf(b, where, first) # 0
                         THEN CountOf(b, where, first)
                         ELSE CountOf(b, where, other)]

InitQuery ==
    /\ bills \in QueryStores
    /\ logs = EmptyBag
    /\ disk = [p \in Paths |-> ""]
    /\ run = [r \in Runs |-> IdleRun]
    /\ calc = IdleCalc
    /\ query = [IdleQuery EXCEPT !.store = bills]
    /\ batch = IdleBatch

\* GET /bills: BillsService.getBills(filters, page, limit).
GetBillsPage(filters, page, limit) ==
    /\ query.pc = "idle"
    /\ query' = [query EXCEPT !.pc = "done", !.op = "getBills",
                              !.filters = filters, !.page = page, !.limit = limit,
                              !.list = getBills(bills, filters, page, limit)]
    /\ UNCHANGED <<bills, logs, disk, run, calc, batch>>

\* GET /dashboard/energy: lines 50-108 with the catch at 103-106.
GetEnergyResults(filters) ==
    /\ query.pc = "idle"
    /\ query' = [query EXCEPT !.pc = "done", !.op = "getEnergyResults",
                              !.filters = filters @@ NoFilter,
                              !.energyResults = getEnergyResults(bills, filters)]
    /\ UNCHANGED <<bills, logs, disk, run, calc, batch>>

\* GET /dashboard/financial: lines 110-168.
GetFinancialResults(filters) ==
    /\ query.pc = "idle"
    /\ query' = [query EXCEPT !.pc = "done", !.op = "getFinancialResults",
                              !.filters = filters @@ NoFilter,
                              !.financialResults = getFinancialResults(bills, filters)]
    /\ UNCHANGED <<bills, logs, disk, run, calc, batch>>

\* GET /dashboard: lines 19-48.  The where clause built at line 24 is what
\* getEnergyResults and getFinancialResults are given as their filters, and
\* they build a where clause from it again.
GetDashboardData(filters, first) ==
    /\ query.pc = "idle"
    /\ LET whereClause == buildWhereClause(filters)
           asFilters == WhereAsFilters(whereClause)
           q == [query EXCEPT !.pc = "done", !.op = "getDashboardData",
                              !.filters = filters @@ NoFilter]
       IN query' =
            IF InvalidWhere(buildWhereClause(asFilters))
            THEN [q EXCEPT !.thrown = BadRequestException("Erro na geracao do dashboard")]
            ELSE [q EXCEPT !.summary = getDashboardSummary(bills, whereClause, first),
                           !.energyResults = getEnergyResults(bills, asFilters),
                           !.financialResults = getFinancialResults(bills, asFilters)]
    /\ UNCHANGED <<bills, logs, disk, run, calc, batch>>

NextQuery ==
    \/ \E filters \in BillFilters, page \in Pages, limit \in Limits :
          GetBillsPage(filters, page, limit)
    \/ \E filters \in DashboardFilters : GetEnergyResults(filters)
    \/ \E filters \in DashboardFilters : GetFinancialResults(filters)
    \/ \E filters \in DashboardFilters, first \in {"PENDING", "PROCESSING"} :
          GetDashboardData(filters, first)

SpecQuery == InitQuery /\ [][NextQuery]_vars

----------------------------------------------------------------------------
\* Properties.

\* The request r takes a step.
Steps(r) == run'[r] # run[r]

HasLog(billId, operation) ==
    \E row \in BagToSet(logs) : row.billId = billId /\ row.operation = operation

NoCalls(rs) ==
    rs.nCreate = 0 /\ rs.nUpdate = 0 /\ rs.nLog = 0 /\ rs.nLlm = 0

\* C1: when the duplicate pre-check of an upload finds a row with the
\* document's fileHash (whatever the row's status), the call rejects with
\* BadRequestException "already processed", the tables are left as they are,
\* and the run makes no create, update, log write or gateway call.
C1_DuplicateRejected ==
    [][\A r \in Runs :
         (run[r].pc = "findFirst" /\ Steps(r)
          /\ \E i \in DOMAIN bills : bills[i].fileHash = run[r].fileHash)
         => /\ run'[r].pc = "done"
            /\ run'[r].thrown = BadRequestException(MsgDuplicate)
            /\ ~run'[r].returned
            /\ NoCalls(run'[r])
            /\ run'[r].billId = 0
            /\ bills' = bills /\ logs' = logs]_vars

\* C1 witness: an upload was rejected as the duplicate of a FAILED row.
C1_Witness ==
    \E r \in Runs : \E i \in DOMAIN bills :
        /\ run[r].op = "upload" /\ run[r].pc = "done"
        /\ run[r].thrown = BadRequestException(MsgDuplicate)
        /\ bills[i].fileHash = run[r].fileHash
        /\ bills[i].processingStatus = "FAILED"

\* The run created exactly one row, and the call resolved with its id.
CreatedOne(rs) ==
    /\ rs.nCreate = 1
    /\ rs.billId \in DOMAIN bills
    /\ rs.resultBillId = rs.billId

\* C2 as stated: every call that resolved has created exactly one row, the
\* row is COMPLETED, the returned billId is its id, and the log holds an
\* upload_started and a processing_completed row for it.
C2_Original ==
    \A r \in Runs :
        run[r].returned =>
            /\ CreatedOne(run[r])
            /\ bills[run[r].billId].processingStatus = "COMPLETED"
            /\ HasLog(run[r].billId, "upload_started")
            /\ HasLog(run[r].billId, "processing_completed")

\* C2 amended: every call that resolved has created exactly one row, the
\* row is COMPLETED, the returned billId is its id, both log writes were
\* made, and each of the two rows is in the log unless its write threw.
C2_SuccessfulIngest ==
    \A r \in Runs :
        run[r].returned =>
            /\ CreatedOne(run[r])
            /\ bills[run[r].billId].processingStatus = "COMPLETED"
            /\ run[r].nLog = 2
            /\ \A operation \in {"upload_started", "processing_completed"} :
                  operation \notin run[r].lostLogs => HasLog(run[r].billId, operation)

\* C2 witness: a call resolved and both of its log rows are there.
C2_Witness ==
    \E r \in Runs :
        /\ run[r].returned
        /\ run[r].lostLogs = {}
        /\ HasLog(run[r].billId, "upload_started")
        /\ HasLog(run[r].billId, "processing_completed")

\* C3: a run whose gateway call threw e ends with one row created by it,
\* FAILED with errorMessage = e.message, a processing_failed log row, and
\* e itself rejected to the caller.
C3_ExtractionFailure ==
    \A r \in Runs :
        (run[r].pc = "done" /\ run[r].err \in LlmErrors) =>
            /\ run[r].nCreate = 1
            /\ run[r].billId \in DOMAIN bills
            /\ bills[run[r].billId].processingStatus = "FAILED"
            /\ bills[run[r].billId].errorMessage = run[r].err.message
            /\ HasLog(run[r].billId, "processing_failed")
            /\ run[r].thrown = run[r].err

\* C4: whatever happens in the catch block, the caller receives the error
\* that the catch block caught.
C4_OriginalErrorRethrown ==
    \A r \in Runs :
        (run[r].pc = "done" /\ run[r].err # NoError) => run[r].thrown = run[r].err

\* C5: once its run has returned or thrown, a row created by the run is
\* COMPLETED or FAILED.
C5_NoRowLeftProcessing ==
    \A r \in Runs :
        (run[r].pc = "done" /\ run[r].billId \in DOMAIN bills) =>
            bills[run[r].billId].processingStatus \in {"COMPLETED", "FAILED"}

\* C6: no two rows have the same fileHash.
C6_UniqueFileHash ==
    \A i, j \in DOMAIN bills : i # j => bills[i].fileHash # bills[j].fileHash

\* C6 witness: two runs of the same document both passed the pre-check and
\* both called create.
C6_Witness ==
    \E r1, r2 \in Runs :
        /\ r1 # r2
        /\ run[r1].fileHash = run[r2].fileHash
        /\ run[r1].nCreate = 1 /\ run[r2].nCreate = 1

\* C7: a run whose create was rejected by the unique index rejects with
\* the BadRequestException of a detected duplicate.
C7_UniqueViolationIsDuplicate ==
    \A r \in Runs :
        (run[r].pc = "done" /\ run[r].dbCreateError = DbUniqueError) =>
            run[r].thrown = BadRequestException(MsgDuplicate)

\* C8: a reprocess that read the saved file of its FAILED bill ends with a
\* new row for the same document next to the original one.
C8_ReprocessCreatesRecord ==
    \A r \in Runs :
        (run[r].op = "reprocess" /\ run[r].pc = "done" /\ run[r].file.present) =>
            /\ run[r].billId \in DOMAIN bills
            /\ run[r].billId # run[r].target
            /\ bills[run[r].billId].fileHash = bills[run[r].target].fileHash

\* C9: no step of reprocessBill(id) changes the row id.
C9_ReprocessLeavesOriginal ==
    [][\A r \in Runs :
         (run[r].op = "reprocess" /\ Steps(r) /\ run[r].target \in DOMAIN bills)
         => bills'[run[r].target] = bills[run[r].target]]_vars

\* C9 witness: a reprocess of a FAILED bill read the file and ran the
\* pipeline up to its outcome.
C9_Witness ==
    \E r \in Runs :
        /\ run[r].op = "reprocess" /\ run[r].pc = "done"
        /\ run[r].nRead = 1 /\ run[r].nFind = 1
        /\ bills[run[r].target].processingStatus = "FAILED"

\* C10: reprocessBill on a bill that is not FAILED rejects with
\* BadRequestException, changes no table, and reads no file, writes no row
\* and calls no gateway.
C10_IneligibleReprocess ==
    [][\A r \in Runs :
         (run[r].pc = "findUnique" /\ Steps(r)
          /\ run[r].target \in DOMAIN bills
          /\ bills[run[r].target].processingStatus # "FAILED")
         => /\ run'[r].pc = "done"
            /\ run'[r].thrown = BadRequestException(MsgNotFailed)
            /\ ~run'[r].returned
            /\ NoCalls(run'[r])
            /\ run'[r].nRead = 0 /\ run'[r].nFind = 0
            /\ bills' = bills /\ logs' = logs]_vars

\* C10 witness: a reprocess of a COMPLETED bill was turned away.
C10_Witness ==
    \E r \in Runs :
        /\ run[r].op = "reprocess" /\ run[r].pc = "done"
        /\ run[r].thrown = BadRequestException(MsgNotFailed)
        /\ run[r].target \in DOMAIN bills
        /\ bills[run[r].target].processingStatus = "COMPLETED"

RejectedByValidation(rs, message) ==
    /\ rs.pc = "done"
    /\ rs.thrown = BadRequestException(message)
    /\ rs.nFind = 0 /\ NoCalls(rs) /\ rs.billId = 0

\* C12: an upload of a present file is rejected with BadRequestException
\* when its MIME type is not application/pdf (whatever its size), otherwise
\* when its size is greater than MaxFileSize, each time before any lookup,
\* create or log write; a PDF of size up to and including MaxFileSize
\* passes validation.
C12_ValidationOrder ==
    \A r \in Runs :
        (run[r].op = "upload" /\ run[r].file.present) =>
            LET file == run[r].file
            IN IF file.mimetype # "application/pdf"
               THEN RejectedByValidation(run[r], MsgNotPdf)
               ELSE IF file.size > MaxFileSize
               THEN RejectedByValidation(run[r], MsgTooLarge)
               ELSE /\ run[r].thrown.message \notin {MsgNoFile, MsgNotPdf, MsgTooLarge}
                    /\ run[r].pc = "findFirst" \/ run[r].nFind = 1

\* C12 witness: a file that is both not a PDF and too large was rejected
\* for its type, and a PDF of exactly MaxFileSize bytes went on to the
\* duplicate check.
C12_Witness ==
    \E r1, r2 \in Runs :
        /\ run[r1].op = "upload"
        /\ run[r1].file.present
        /\ run[r1].file.mimetype # "application/pdf"
        /\ run[r1].file.size > MaxFileSize
        /\ run[r1].thrown = BadRequestException(MsgNotPdf)
        /\ run[r2].op = "upload"
        /\ run[r2].file.mimetype = "application/pdf"
        /\ run[r2].file.size = MaxFileSize
        /\ run[r2].nFind = 1

\* C13: uploadAndProcessBill called without a file rejects with
\* BadRequestException "no file was sent" and creates no row.
C13_AbsentFile ==
    \A r \in Runs :
        (run[r].op = "upload" /\ ~run[r].file.present) =>
            RejectedByValidation(run[r], MsgNoFile)

\* C14: the outcome of a run that created its row is decided by the error
\* of the try block and by the FAILED update alone, whatever became of its
\* log writes: without an error the call resolves with the id of its
\* COMPLETED row; with an error e it rejects with e and the row is FAILED
\* with e's message, or the FAILED update threw; the error of a log write
\* never reaches the caller.
C14_LogFailureChangesNothing ==
    \A r \in Runs :
        (run[r].pc = "done" /\ run[r].billId \in DOMAIN bills) =>
            LET bill == bills[run[r].billId]
            IN /\ run[r].thrown # LogError
               /\ IF run[r].err = NoError
                  THEN /\ run[r].returned /\ run[r].thrown = NoError
                       /\ run[r].resultBillId = run[r].billId
                       /\ bill.processingStatus = "COMPLETED"
                  ELSE /\ ~run[r].returned
                       /\ \/ /\ run[r].thrown = run[r].err
                             /\ bill.processingStatus = "FAILED"
                             /\ bill.errorMessage = run[r].err.message
                          \/ /\ run[r].thrown = DbError("update FAILED")
                             /\ bill.processingStatus = "PROCESSING"

\* C14 witness: one run resolved although both of its log writes threw, and
\* another rejected with its llmError although its processing_failed write
\* threw.
C14_Witness ==
    \E r1, r2 \in Runs :
        /\ run[r1].returned
        /\ run[r1].lostLogs = {"upload_started", "processing_completed"}
        /\ run[r2].pc = "done"
        /\ run[r2].err \in LlmErrors
        /\ run[r2].thrown = run[r2].err
        /\ "processing_failed" \in run[r2].lostLogs

\* C15: a row is PROCESSING until its run updates it, and when the run has
\* returned or thrown the row has been updated exactly once, to COMPLETED
\* or to FAILED.
C15_MutatedExactlyOnce ==
    \A r \in Runs :
        run[r].billId \in DOMAIN bills =>
            LET bill == bills[run[r].billId]
            IN /\ run[r].pc \in {"logStarted", "extract", "updateCompleted", "updateFailed"}
                    => bill.processingStatus = "PROCESSING"
               /\ run[r].pc \in {"logCompleted", "logFailed", "done"}
                    => bill.processingStatus \in {"COMPLETED", "FAILED"}
               /\ bill.processingStatus = "COMPLETED" => run[r].err = NoError
               /\ bill.processingStatus = "FAILED" => run[r].err # NoError

\* A row without extracted data.
NoExtractedData(bill) ==
    /\ bill.customerNumber = "PROCESSING" /\ bill.referenceMonth = "PROCESSING"
    /\ bill.electricEnergyQuantity = 0 /\ bill.electricEnergyValue = 0
    /\ bill.sceeeQuantity = 0 /\ bill.sceeeValue = 0
    /\ bill.compensatedEnergyQuantity = 0 /\ bill.compensatedEnergyValue = 0
    /\ bill.publicLightingContrib = 0
    /\ bill.totalEnergyConsumption = 0 /\ bill.compensatedEnergy = 0
    /\ bill.totalValueWithoutGD = 0 /\ bill.gdEconomy = 0

\* C16: a PROCESSING or FAILED row holds the placeholders and zeros it was
\* created with; the metrics of a COMPLETED row follow from its own columns.
C16_RowDataMatchesStatus ==
    \A i \in DOMAIN bills :
        LET bill == bills[i]
        IN /\ bill.processingStatus \in {"PROCESSING", "FAILED"} => NoExtractedData(bill)
           /\ bill.processingStatus = "COMPLETED" =>
                /\ bill.totalEnergyConsumption =
                       bill.electricEnergyQuantity + bill.sceeeQuantity
                /\ bill.compensatedEnergy = bill.compensatedEnergyQuantity
                /\ bill.totalValueWithoutGD =
                       bill.electricEnergyValue + bill.sceeeValue + bill.publicLightingContrib
                /\ bill.gdEconomy = bill.compensatedEnergyValue

\* C16 witness: a COMPLETED row with SCEEE energy and public lighting next
\* to a FAILED row.
C16_Witness ==
    \E i, j \in DOMAIN bills :
        /\ bills[i].processingStatus = "COMPLETED"
        /\ bills[i].sceeeQuantity # 0 /\ bills[i].publicLightingContrib # 0
        /\ bills[j].processingStatus = "FAILED"

\* C19: the kind of the error tells its cause.  A wrong type, an oversized
\* file, a duplicate and an ineligible bill reject with BadRequestException,
\* an unknown id with NotFoundException, and an error raised after the row
\* exists (extraction, update) carries neither of these two kinds.  (The
\* call without a file is C13.)
C19_ErrorKinds ==
    \A r \in Runs :
        (run[r].pc = "done" /\ run[r].thrown # NoError /\ run[r].file.present) =>
            IF run[r].billId # 0
            THEN run[r].thrown.kind \notin {"BadRequestException", "NotFoundException"}
            ELSE run[r].thrown.message \in {MsgNotPdf, MsgTooLarge, MsgDuplicate, MsgNotFailed}
                    => run[r].thrown.kind = "BadRequestException"

\* C20: only a FAILED row has an errorMessage, and the errorMessage of a
\* FAILED row is the message of the error its run caught.
C20_ErrorMessageOnlyWhenFailed ==
    /\ \A i \in DOMAIN bills :
          bills[i].errorMessage # "" => bills[i].processingStatus = "FAILED"
    /\ \A r \in Runs :
          (run[r].billId \in DOMAIN bills
           /\ bills[run[r].billId].processingStatus = "FAILED")
          => /\ run[r].err # NoError
             /\ bills[run[r].billId].errorMessage = run[r].err.message
             /\ bills[run[r].billId].errorMessage # ""

\* C20 witness: a FAILED row with the message of the gateway's error next
\* to a COMPLETED row without a message.
C20_Witness ==
    \E i, j \in DOMAIN bills :
        /\ bills[i].processingStatus = "FAILED"
        /\ bills[i].errorMessage \in {e.message : e \in LlmErrors}
        /\ bills[j].processingStatus = "COMPLETED"
        /\ bills[j].errorMessage = ""

\* The reference formulas: an absent optional field counts as 0.
ValueOr0(opt) == IF opt.present THEN opt.value ELSE 0
QuantityOr0(opt) == IF opt.present THEN opt.quantity ELSE 0

\* C17: for every combination of present and absent sceeeEnergy,
\* compensatedEnergy and publicLightingContrib, calculateDerivedValues
\* does not throw and returns
\*   totalEnergyConsumption = electricEnergy.quantity + (sceeeEnergy.quantity or 0)
\*   compensatedEnergy      = (compensatedEnergy.quantity or 0)
\*   totalValueWithoutGD    = electricEnergy.value + (sceeeEnergy.value or 0)
\*                            + (publicLightingContrib or 0)
\*   gdEconomy              = (compensatedEnergy.value or 0).
C17_DerivedValues ==
    (calc.pc \notin {"idle", "calculate"} /\ calc.extractedData.electricEnergy.present) =>
        LET x == calc.extractedData
        IN /\ calc.thrown.kind # "TypeError"
           /\ calc.calculatedData =
                [totalEnergyConsumption |->
                     x.electricEnergy.quantity + QuantityOr0(x.sceeeEnergy),
                 compensatedEnergy |-> QuantityOr0(x.compensatedEnergy),
                 totalValueWithoutGD |->
                     x.electricEnergy.value + ValueOr0(x.sceeeEnergy)
                     + ValueOr0(x.publicLightingContrib),
                 gdEconomy |-> ValueOr0(x.compensatedEnergy)]

\* C17 witness: the call with every optional field absent returned the
\* electric energy alone.
C17_Witness ==
    /\ calc.pc = "store"
    /\ calc.extractedData.electricEnergy = Pair(50, 4567)
    /\ ~calc.extractedData.sceeeEnergy.present
    /\ ~calc.extractedData.compensatedEnergy.present
    /\ ~calc.extractedData.publicLightingContrib.present
    /\ calc.calculatedData = [totalEnergyConsumption |-> 50, compensatedEnergy |-> 0,
                              totalValueWithoutGD |-> 4567, gdEconomy |-> 0]

HexDigits == { "0", "1", "2", "3", "4", "5", "6", "7", "8", "9",
               "a", "b", "c", "d", "e", "f" }
IsHex32(h) == Len(h) = 32 /\ \A i \in 1..32 : SubSeq(h, i, i) \in HexDigits

C25_ValidationGate ==
    /\ calc.rawData.given /\ calc.pc # "validate" =>
          LET data == calc.rawData
              accepted == calc.extractedData # NoData
              valid ==
                  /\ ~data.isNull
                  /\ data.customerNumber \in { JsString("7202210726"), JsString(" 7202210726 ") }
                  /\ data.referenceMonth \in { JsString(" set/2024 "), JsString("SET/2024") }
                  /\ data.electricEnergy.quantity \in { JsNumber(50), JsString("50") }
          IN /\ accepted <=> valid
             /\ accepted =>
                   /\ calc.extractedData.customerNumber = "7202210726"
                   /\ calc.extractedData.referenceMonth = "SET/2024"
                   /\ calc.extractedData.electricEnergy = Pair(50, 4567)
                   /\ calc.extractedData.sceeeEnergy \in { Absent, Pair(476, 39250) }
                   /\ calc.extractedData.compensatedEnergy \in { Absent, Pair(526, 0 - 43817) }
                   /\ calc.extractedData.publicLightingContrib =
                          IF data.publicLightingContrib = JsNull THEN Absent ELSE Pair(0, 2345)
                   /\ calc.thrown.kind # "BadRequestException"
             /\ ~accepted =>
                   /\ calc.pc = "done"
                   /\ calc.thrown.kind = "BadRequestException"
                   /\ calc.thrown.message \in
                          { "Dados extraidos invalidos: Cannot read properties of null",
                            "Dados extraidos invalidos: Numero do cliente nao encontrado",
                            "Dados extraidos invalidos: Mes de referencia nao encontrado",
                            "Dados extraidos invalidos: Energia eletrica nao encontrada" }
                   /\ bills = << >>
    /\ \A id \in DOMAIN bills :
          bills[id].processingStatus = "COMPLETED" =>
              /\ bills[id].customerNumber # ""
              /\ bills[id].referenceMonth # ""
              /\ bills[id].electricEnergyQuantity # 0

\* C25 witness: an answer with a padded customer number, the month in lower
\* case and the quantity as text was accepted and stored as a COMPLETED
\* row with the cleaned values.
C25_Witness ==
    /\ calc.rawData.customerNumber = JsString(" 7202210726 ")
    /\ calc.rawData.referenceMonth = JsString(" set/2024 ")
    /\ calc.rawData.electricEnergy = JsItem(JsString("50"), JsString("45.67"))
    /\ calc.rawData.publicLightingContrib = JsString("23.45")
    /\ calc.billId \in DOMAIN bills
    /\ bills[calc.billId].processingStatus = "COMPLETED"
    /\ bills[calc.billId].customerNumber = "7202210726"
    /\ bills[calc.billId].referenceMonth = "SET/2024"
    /\ bills[calc.billId].electricEnergyQuantity = 50
    /\ bills[calc.billId].electricEnergyValue = 4567

\* C28: uploadBillsBatch handles its files one after another in input
\* order and returns one result per file in that order; a file whose
\* upload fails (validation, duplicate of a stored bill or of an earlier
\* file of the batch, create or extraction failure) gets success = false
\* and an empty billId, the files after it are still processed, and the
\* batch call does not throw.
C28_BatchResults ==
    LET files == batch.files
        results == batch.results
    IN /\ batch.thrown = NoError
       /\ batch.pc = "done" <=> batch.returned
       /\ batch.returned => Len(results) = Len(files)
       /\ batch.pc \in {"await", "delay"} =>
             Len(results) = IF batch.pc = "await" THEN batch.i - 1 ELSE batch.i
       \* one request at a time, in input order
       /\ \A r \in Runs :
             run[r].pc # "idle" =>
                 /\ r \in DOMAIN files /\ r <= batch.i
                 /\ run[r].file = files[r]
                 /\ \A j \in 1..(r - 1) : run[j].pc = "done" /\ j \in DOMAIN results
       /\ \A k \in DOMAIN results :
             /\ k \in DOMAIN files
             /\ run[k].pc = "done"
             /\ results[k].fileName = files[k].originalname
             /\ results[k].success <=> run[k].returned
             /\ results[k].success =>
                   /\ results[k].billId = run[k].resultBillId
                   /\ results[k].billId \in DOMAIN bills
                   /\ bills[results[k].billId].processingStatus = "COMPLETED"
             /\ ~results[k].success =>
                   /\ results[k].billId = 0
                   /\ run[k].thrown # NoError
                   /\ results[k].error = run[k].thrown.message
             /\ validateFile(files[k]) # NoError =>
                   ~results[k].success /\ results[k].error = validateFile(files[k]).message
             /\ run[k].err # NoError => ~results[k].success
             \* a duplicate of an earlier file of the batch that was stored
             /\ \A j \in 1..(k - 1) :
                   /\ files[j].buffer = files[k].buffer
                   /\ run[j].billId # 0
                   /\ validateFile(files[k]) = NoError
                   => /\ ~results[k].success
                      /\ results[k].error = MsgDuplicate

\* C28 witness: the first file of a batch was refused by validation, the
\* second was stored, and the batch returned both results.
C28_Witness ==
    /\ batch.returned
    /\ Len(batch.files) >= 2
    /\ ~batch.results[1].success /\ batch.results[1].billId = 0
    /\ batch.results[1].error \in {MsgNotPdf, MsgTooLarge}
    /\ batch.results[2].success /\ batch.results[2].billId \in DOMAIN bills

\* C21: when energyBill.create throws, the call rejects with that very
\* error, the run has no row (none with its id, none with its file), no
\* log entry was written, and neither the Extraction Gateway nor an update
\* was called.
C21_CreateFailure ==
    \A r \in Runs :
        run[r].dbCreateError # NoError =>
            /\ run[r].pc = "done" /\ ~run[r].returned
            /\ run[r].thrown = run[r].dbCreateError
            /\ run[r].nCreate = 1
            /\ run[r].billId = 0
            /\ run[r].op = "upload" =>
                 \A i \in DOMAIN bills : bills[i].filePath # run[r].file.path
            /\ run[r].nLog = 0 /\ run[r].nLlm = 0 /\ run[r].nUpdate = 0

\* C21 witness: a create was refused by the store while another run holds
\* a row, and the caller got the store's error.
C21_Witness ==
    \E r1, r2 \in Runs :
        /\ run[r1].billId \in DOMAIN bills
        /\ run[r2].dbCreateError \in {DbUniqueError, DbError("create")}
        /\ run[r2].thrown = run[r2].dbCreateError
        /\ run[r2].pc = "done"

\* C22: when reprocessBill cannot read the saved file, the call rejects
\* with a processing error "could not read saved file" whose kind is
\* neither the client kind nor the kind of an extraction failure, and
\* uploadAndProcessBill is not called: no lookup by hash, no create, no
\* update, no log write.
C22_ReadFailure ==
    \A r \in Runs :
        (run[r].op = "reprocess" /\ run[r].nRead = 1 /\ ~run[r].file.present) =>
            /\ run[r].pc = "done" /\ ~run[r].returned
            /\ run[r].thrown.message = MsgReadFile
            /\ run[r].thrown.kind # "BadRequestException"
            /\ run[r].thrown.kind \notin {e.kind : e \in LlmErrors}
            /\ run[r].nFind = 0 /\ NoCalls(run[r])

Written(r) == run[r].nLog - Cardinality(run[r].lostLogs)

RECURSIVE WrittenUpTo(_)
WrittenUpTo(n) == IF n = 0 THEN 0 ELSE Written(n) + WrittenUpTo(n - 1)

\* C29: every log row names the row of a run that wrote it; a row has at
\* most one entry of each operation and never both a processing_completed
\* and a processing_failed entry; a processing_completed entry belongs to a
\* COMPLETED row and a processing_failed entry to a FAILED row; and the log
\* holds exactly the rows that were written (none updated or deleted).
C29_LogMatchesStatus ==
    /\ \A row \in BagToSet(logs) :
          /\ row.billId \in DOMAIN bills
          /\ \E r \in Runs : run[r].billId = row.billId /\ run[r].nLog >= 1
          /\ CopiesIn(row, logs) = 1
          /\ row.operation = "upload_started" => row.status = "success"
          /\ row.operation = "processing_completed" =>
                /\ row.status = "success"
                /\ bills[row.billId].processingStatus = "COMPLETED"
                /\ ~HasLog(row.billId, "processing_failed")
          /\ row.operation = "processing_failed" =>
                /\ row.status = "error"
                /\ bills[row.billId].processingStatus = "FAILED"
    /\ BagCardinality(logs) = WrittenUpTo(MaxRuns)

\* C29 witness: the log holds the two entries of a COMPLETED row and the
\* two entries of a FAILED row.
C29_Witness ==
    \E i, j \in DOMAIN bills :
        /\ bills[i].processingStatus = "COMPLETED"
        /\ HasLog(i, "upload_started") /\ HasLog(i, "processing_completed")
        /\ bills[j].processingStatus = "FAILED"
        /\ HasLog(j, "upload_started") /\ HasLog(j, "processing_failed")

\* The rows of the table that the filter of the query selects.
MatchingIds ==
    { i \in DOMAIN bills :
        /\ query.filters.customerNumber = "7202" => bills[i].customerNumber = "7202210726"
        /\ query.filters.referenceMonth = "set" => bills[i].referenceMonth = "SET/2024"
        /\ query.filters.status # "" => bills[i].processingStatus = query.filters.status
        /\ query.filters.startDate # 0 => i >= query.filters.startDate
        /\ query.filters.endDate # 0 => i <= query.filters.endDate }

\* Position of row i among the selected rows, newest first.
RankNewestFirst(i) == Cardinality({ j \in MatchingIds : j >= i })

\* C24: getBills answers with the page and limit it was given, total = the
\* number of rows that match the filter, totalPages = ceil(total / limit)
\* (0 for total 0), and as items the matching rows number
\* (page - 1) * limit + 1 to page * limit counted from the newest, in that
\* order; the table is as it was.
C24_Pagination ==
    (query.pc = "done" /\ query.op = "getBills") =>
        LET answer == query.list
            skip == (query.page - 1) * query.limit
        IN /\ answer.page = query.page /\ answer.limit = query.limit
           /\ answer.total = Cardinality(MatchingIds)
           /\ answer.totalPages * query.limit >= answer.total
           /\ (answer.totalPages - 1) * query.limit < answer.total
           /\ answer.total = 0 => answer.totalPages = 0
           /\ Len(answer.bills) <= query.limit
           /\ { answer.bills[k].id : k \in DOMAIN answer.bills } =
                 { i \in MatchingIds : /\ RankNewestFirst(i) > skip
                                       /\ RankNewestFirst(i) <= skip + query.limit }
           /\ \A k \in DOMAIN answer.bills :
                 /\ RankNewestFirst(answer.bills[k].id) = skip + k
                 /\ answer.bills[k] = UploadBillResponse(bills[answer.bills[k].id])
           /\ bills = query.store

\* C24 witness: the second page of one item out of three rows of which the
\* filter selects two: the older of the two.
C24_Witness ==
    /\ query.pc = "done" /\ query.op = "getBills"
    /\ Len(bills) = 3
    /\ query.filters.customerNumber = "7202"
    /\ query.page = 2 /\ query.limit = 1
    /\ query.list.total = 2 /\ query.list.totalPages = 2
    /\ Len(query.list.bills) = 1
    /\ query.list.bills[1].id = 1

\* The COMPLETED rows that the filter of the dashboard request selects.
CompletedMatchingIds ==
    { i \in DOMAIN bills :
        /\ bills[i].processingStatus = "COMPLETED"
        /\ query.filters.customerNumber = "7202" => bills[i].customerNumber = "7202210726"
        /\ query.filters.startDate # 0 => i >= query.filters.startDate
        /\ query.filters.endDate # 0 => i <= query.filters.endDate }

\* Sum of a column over a set of rows.
TotalOver(ids, field) ==
    SumSeq([i \in 1..Len(bills) |-> IF i \in ids THEN bills[i][field] ELSE 0])

OfMonth(ids, month) == { i \in ids : bills[i].referenceMonth = month }

\* C26: the totals and the monthly figures of every answered dashboard
\* request (energy, financial, or the whole dashboard) are the sums over
\* the COMPLETED rows that match the request's filter, each month with such
\* a row is listed, and a percentage is 0 when the total it divides by is 0.
C26_DashboardTotals ==
    LET ids == CompletedMatchingIds
        Consumption == "totalEnergyConsumption"
        Compensation == "compensatedEnergy"
        Value == "totalValueWithoutGD"
        Economy == "gdEconomy"
        energy == query.energyResults
        financial == query.financialResults
    IN (query.pc = "done" /\ query.thrown = NoError) =>
         /\ query.op \in {"getEnergyResults", "getDashboardData"} =>
              /\ energy.totalEnergyConsumption = TotalOver(ids, Consumption)
              /\ energy.totalCompensatedEnergy = TotalOver(ids, Compensation)
              /\ energy.totalEnergyConsumption = 0 =>
                    energy.consumptionVsCompensation.percentage = 0
              /\ { item.month : item \in Range(energy.monthlyData) } =
                    { bills[i].referenceMonth : i \in ids }
              /\ \A item \in Range(energy.monthlyData) :
                    /\ item.consumption = TotalOver(OfMonth(ids, item.month), Consumption)
                    /\ item.compensation = TotalOver(OfMonth(ids, item.month), Compensation)
         /\ query.op \in {"getFinancialResults", "getDashboardData"} =>
              /\ financial.totalValueWithoutGD = TotalOver(ids, Value)
              /\ financial.totalGdEconomy = TotalOver(ids, Economy)
              /\ financial.totalValueWithoutGD = 0 =>
                    financial.economyVsTotal.economyPercentage = 0
              /\ { item.month : item \in Range(financial.monthlyData) } =
                    { bills[i].referenceMonth : i \in ids }
              /\ \A item \in Range(financial.monthlyData) :
                    /\ item.totalValue = TotalOver(OfMonth(ids, item.month), Value)
                    /\ item.economy = TotalOver(OfMonth(ids, item.month), Economy)

\* Rows of a status that the filter of the dashboard request selects.
MatchingWithStatus(statuses) ==
    { i \in DOMAIN bills :
        /\ bills[i].processingStatus \in statuses
        /\ query.filters.customerNumber = "7202" => bills[i].customerNumber = "7202210726"
        /\ query.filters.startDate # 0 => i >= query.filters.startDate
        /\ query.filters.endDate # 0 => i <= query.filters.endDate }

\* C30: in the summary of every answered dashboard request, processedBills
\* is the number of COMPLETED rows, failedBills the number of FAILED rows,
\* pendingBills the number of PROCESSING rows plus the number of PENDING
\* rows, and the three add up to totalBills.
C30_SummaryPartition ==
    (query.pc = "done" /\ query.op = "getDashboardData" /\ query.thrown = NoError) =>
        /\ query.summary.totalBills = Cardinality(MatchingWithStatus(ProcessingStatus))
        /\ query.summary.processedBills = Cardinality(MatchingWithStatus({"COMPLETED"}))
        /\ query.summary.failedBills = Cardinality(MatchingWithStatus({"FAILED"}))
        /\ query.summary.pendingBills =
              Cardinality(MatchingWithStatus({"PROCESSING", "PENDING"}))
        /\ query.summary.processedBills + query.summary.failedBills
              + query.summary.pendingBills = query.summary.totalBills

====
